---- MODULE Spec2Model ----
(***************************************************************************)
(* The shopping demo server of src/src/app.py: one HTTPServer running      *)
(* ShoppingHandler, the module-level cart store `carts`, the latency       *)
(* simulator and the two failure gates.                                    *)
(*                                                                         *)
(* Money is counted in cents and durations in microseconds, so that the    *)
(* arithmetic of the handlers stays in the integers.                       *)
(***************************************************************************)
EXTENDS Integers, Sequences, FiniteSets, TLC

VARIABLES
    cfg,        \* the configuration read from the environment at import
    carts,      \* the module-level dict `carts`: user id -> cart
    backlog,    \* connections waiting in the listening socket, oldest first
    handlers,   \* the handler instances that are running a do_GET / do_POST
    ledger,     \* history: the items appended for a user since the last reset
    acked       \* history: the items of the addItem requests answered 200 for
                \* a user since the last reset

vars == <<cfg, carts, backlog, handlers, ledger, acked>>

-----------------------------------------------------------------------------
(* Bounds of the model. *)

\* connections that may wait in the listen backlog at once
MaxBacklog == 1
\* items one cart may hold before further addItem requests stop arriving
MaxItems == 2

-----------------------------------------------------------------------------
(* Configuration, app.py lines 20-27. *)

BASE_LATENCY == 50
PRODUCT_LATENCY == 200
CART_LATENCY == 300
CHECKOUT_LATENCY == 800
\* failure rates in per-mille: 0.05 and 0.10
DB_FAILURE_RATE == 50
PAYMENT_FAILURE_RATE == 100
CHAOS_MULTIPLIER == 10

DefaultConfig ==
    [base |-> BASE_LATENCY, product |-> PRODUCT_LATENCY, cart |-> CART_LATENCY,
     checkout |-> CHECKOUT_LATENCY, db_rate |-> DB_FAILURE_RATE,
     pay_rate |-> PAYMENT_FAILURE_RATE, chaos |-> FALSE,
     multiplier |-> CHAOS_MULTIPLIER]

\* the configurations the server is started with
Configs == {DefaultConfig}

-----------------------------------------------------------------------------
(* The catalog, app.py lines 30-41; prices in cents. *)

PRODUCTS ==
    << [id |-> 1,  name |-> "Laptop Pro 15",       price |-> 129999, category |-> "electronics"],
       [id |-> 2,  name |-> "Wireless Mouse",      price |-> 2999,   category |-> "electronics"],
       [id |-> 3,  name |-> "USB-C Hub",           price |-> 4999,   category |-> "electronics"],
       [id |-> 4,  name |-> "Mechanical Keyboard", price |-> 14999,  category |-> "electronics"],
       [id |-> 5,  name |-> "4K Monitor",          price |-> 39999,  category |-> "electronics"],
       [id |-> 6,  name |-> "Headphones Pro",      price |-> 19999,  category |-> "audio"],
       [id |-> 7,  name |-> "Bluetooth Speaker",   price |-> 7999,   category |-> "audio"],
       [id |-> 8,  name |-> "Webcam HD",           price |-> 8999,   category |-> "electronics"],
       [id |-> 9,  name |-> "Desk Lamp",           price |-> 3499,   category |-> "home"],
       [id |-> 10, name |-> "Ergonomic Chair",     price |-> 29999,  category |-> "furniture"] >>

\* what a failed lookup, next(..., None), yields
NoProduct == [id |-> 0, name |-> "", price |-> 0, category |-> ""]

-----------------------------------------------------------------------------
(* JSON values of a request body, as json.loads hands them to the handler. *)

JInt(n) == [t |-> "int", n |-> n, s |-> ""]
JStr(s) == [t |-> "str", n |-> 0, s |-> s]
JNull == [t |-> "null", n |-> 0, s |-> ""]
JList == [t |-> "list", n |-> 0, s |-> ""]
\* the key is not in the object
JAbsent == [t |-> "absent", n |-> 0, s |-> ""]

\* body.get(key, default) on a parsed object
BodyGet(body, key, default) ==
    IF body[key] = JAbsent THEN default ELSE body[key]

\* p['id'] == product_id: an int equals only an equal JSON number
IdEquals(id, j) == j.t = "int" /\ j.n = id

\* next((p for p in PRODUCTS if p['id'] == product_id), None): the first match
RECURSIVE FindFrom(_, _)
FindFrom(i, j) ==
    IF i > Len(PRODUCTS) THEN NoProduct
    ELSE IF IdEquals(PRODUCTS[i].id, j) THEN PRODUCTS[i]
    ELSE FindFrom(i + 1, j)

\* the lookup as it would be with the first product as next()'s default
FindProductOrFirst(j) ==
    IF FindFrom(1, j) = NoProduct THEN PRODUCTS[1] ELSE FindFrom(1, j)

FindProduct(j) == FindFrom(1, j)

\* [p for p in PRODUCTS if p['category'] == category], or all without a filter
ListProducts(category) ==
    IF category = "" THEN PRODUCTS
    ELSE SelectSeq(PRODUCTS, LAMBDA p : p.category = category)

\* the fresh dict {"items": [], "total": 0}
EmptyCart == [items |-> <<>>, total |-> 0]

\* carts.get(user_id, {"items": [], "total": 0}) for a string key
CartRead(store, user) ==
    IF user \in DOMAIN store THEN store[user] ELSE EmptyCart

\* float * quantity is defined for JSON numbers only
CanMultiply(q) == q.t = "int"

-----------------------------------------------------------------------------
(* Requests.  A path is the list path.split('/') makes of it, so            *)
(* "/api/cart/u1/add" is <<"", "api", "cart", "u1", "add">>; the query      *)
(* keeps only its category parameter ("" when there is none).               *)

NoBody == [kind |-> "none", product_id |-> JAbsent, quantity |-> JAbsent,
           user_id |-> JAbsent]
\* a body json.loads rejects
BadBody == [NoBody EXCEPT !.kind = "bad"]
\* a Content-Length header int() rejects
BadLength == [NoBody EXCEPT !.kind = "badlen"]
\* valid JSON that is not an object
ListBody == [NoBody EXCEPT !.kind = "list"]
AddBody(pid, q) == [kind |-> "obj", product_id |-> pid, quantity |-> q,
                    user_id |-> JAbsent]
CheckoutBody(u) == [kind |-> "obj", product_id |-> JAbsent, quantity |-> JAbsent,
                    user_id |-> u]
EmptyObject == [NoBody EXCEPT !.kind = "obj"]

Get(parts, category) ==
    [method |-> "GET", parts |-> parts, category |-> category, body |-> NoBody]
Post(parts, body) ==
    [method |-> "POST", parts |-> parts, category |-> "", body |-> body]

AddPath(u) == <<"", "api", "cart", u, "add">>
CheckoutPath == <<"", "api", "checkout">>

GetRequests ==
    { Get(<<"", "">>, ""),
      Get(<<"", "health">>, ""),
      Get(<<"", "api", "products">>, ""),
      Get(<<"", "api", "products">>, "audio"),
      Get(<<"", "api", "products", "2">>, ""),
      Get(<<"", "api", "products", "99">>, ""),
      Get(<<"", "api", "products", "abc">>, ""),
      Get(<<"", "api", "cart", "u1">>, ""),
      Get(<<"", "api", "cart", "u2">>, ""),
      Get(<<"", "api", "cart", "u1", "add">>, ""),
      Get(<<"", "api", "categories">>, ""),
      Get(<<"", "nope">>, "") }

AddRequests ==
    { Post(AddPath("u1"), AddBody(JInt(1), JAbsent)),
      Post(AddPath("u1"), AddBody(JInt(1), JStr("x"))),
      Post(AddPath("u1"), AddBody(JInt(99), JInt(1))),
      Post(AddPath("u1"), EmptyObject),
      Post(AddPath("u1"), ListBody),
      Post(AddPath("u2"), AddBody(JInt(2), JInt(2))),
      Post(AddPath("u2"), AddBody(JInt(99), JAbsent)) }

CheckoutRequests ==
    { Post(CheckoutPath, CheckoutBody(JStr("u1"))),
      Post(CheckoutPath, CheckoutBody(JStr("u2"))),
      Post(CheckoutPath, CheckoutBody(JList)),
      Post(CheckoutPath, EmptyObject),
      Post(CheckoutPath, NoBody) }

OtherRequests ==
    { Post(<<"", "api", "cart", "u1", "remove">>, EmptyObject),
      Post(<<"", "api", "cart", "u1">>, BadBody),
      Post(CheckoutPath, BadLength),
      Post(<<"", "nope">>, NoBody),
      [method |-> "PUT", parts |-> <<"", "health">>, category |-> "",
       body |-> NoBody] }

Requests == GetRequests \cup AddRequests \cup CheckoutRequests \cup OtherRequests

\* the user ids that the requests above can write a cart for
CartUsers == {"u1", "u2"}

\* path == '/api/cart/...': path.startswith(prefix + '/')
StartsWith(parts, a, b) ==
    Len(parts) >= 4 /\ parts[1] = "" /\ parts[2] = a /\ parts[3] = b

IsAddPath(parts) == Len(parts) > 4 /\ parts[5] = "add"

\* the branch of the if/elif chain of do_GET that a path takes
GetRoute(parts) ==
    IF parts = <<"", "">> \/ parts = <<"", "health">> THEN "health"
    ELSE IF parts = <<"", "api", "products">> THEN "products"
    ELSE IF StartsWith(parts, "api", "products") THEN "product"
    ELSE IF StartsWith(parts, "api", "cart") THEN "cart"
    ELSE IF parts = <<"", "api", "categories">> THEN "categories"
    ELSE "notfound"

\* the chain as it would be if its first branch took .../add paths only
PostRouteAddOnly(parts) ==
    IF StartsWith(parts, "api", "cart") /\ IsAddPath(parts) THEN "cartop"
    ELSE IF parts = <<"", "api", "checkout">> THEN "checkout"
    ELSE "notfound"

\* the branch of the if/elif chain of do_POST that a path takes
PostRoute(parts) ==
    IF StartsWith(parts, "api", "cart") THEN "cartop"
    ELSE IF parts = <<"", "api", "checkout">> THEN "checkout"
    ELSE "notfound"

Route(req) ==
    IF req.method = "GET" THEN GetRoute(req.parts) ELSE PostRoute(req.parts)

\* the latency tier each branch passes to simulate_latency
Tier(route) ==
    CASE route \in {"products", "product"} -> "product"
      [] route \in {"cart", "cartop"} -> "cart"
      [] route = "checkout" -> "checkout"
      [] OTHER -> "base"

\* the branches that call simulate_db_call
Gated(route) == route \in {"products", "product", "cart", "cartop", "checkout"}

\* int(path.split('/')[-1]) on the last path segments used here; 0 - 1 when
\* int() raises ValueError
IntOf(s) ==
    CASE s = "2" -> 2
      [] s = "99" -> 99
      [] OTHER -> 0 - 1

-----------------------------------------------------------------------------
(* The latency simulator and the gates, app.py lines 47-69. *)

\* random.uniform(-0.2, 0.2), in per-mille of the latency: the two ends and 0
Jitters == {0 - 200, 0, 200}

\* random.random(), in per-mille of [0, 1): low, middle and high draws
Draws == {0, 75, 999}

\* the module-level constant a tier names, in milliseconds
BaseOf(c, tier) ==
    CASE tier = "product" -> c.product
      [] tier = "cart" -> c.cart
      [] tier = "checkout" -> c.checkout
      [] OTHER -> c.base

\* the simulator as it would be if it multiplied whatever CHAOS_MODE says
simulate_latency_always_chaos(c, base, jitter) ==
    LET latency == base * c.multiplier
    IN  latency * 1000 + latency * jitter

\* the value simulate_latency returns: latency (times the multiplier under
\* chaos) + latency * jitter, in microseconds for a base in milliseconds and
\* a jitter in per-mille
simulate_latency(c, base, jitter) ==
    LET latency == IF c.chaos THEN base * c.multiplier ELSE base
    IN  latency * 1000 + latency * jitter

\* the draw as it would fire with <= in place of <
DbFailsInclusive(c, draw) == draw <= c.db_rate

\* simulate_db_call raises when random.random() < DB_FAILURE_RATE
DbFails(c, draw) == draw < c.db_rate

\* simulate_payment raises when random.random() < PAYMENT_FAILURE_RATE
PaymentFails(c, draw) == draw < c.pay_rate

-----------------------------------------------------------------------------
(* A handler instance: the request it serves, where it is in do_GET or      *)
(* do_POST, its locals, and the response it has sent once pc = "done".      *)
(* ev, before, with and claimed are history: the calls made so far, the     *)
(* cart store when the request was accepted, the requests that were in      *)
(* flight when its connection arrived, and the items its reset removed.     *)
(* rt is self.response_time by where its value comes from: "sim" is the     *)
(* value simulate_latency returned for the base of the handler's tier and   *)
(* the jitter drawn, "elapsed" the wall-clock time since start_time.        *)

Unset == "unset"
NoOut == [total |-> 0, count |-> 0, items |-> <<>>]

\* what a request asks for and for whom, for the overlap history
Summary(req) ==
    IF req.method = "POST" /\ PostRoute(req.parts) = "cartop" /\ IsAddPath(req.parts)
    THEN [kind |-> "add", user |-> req.parts[4]]
    ELSE IF req.method = "POST" /\ PostRoute(req.parts) = "checkout"
              /\ req.body.user_id.t = "str"
    THEN [kind |-> "checkout", user |-> req.body.user_id.s]
    ELSE [kind |-> "other", user |-> ""]

NewHandler(req, store, overlap) ==
    [req |-> req, pc |-> "start", route |-> "", tier |-> "", rt |-> Unset,
     status |-> 0, err |-> "", ev |-> <<>>, before |-> store, with |-> overlap,
     product |-> NoProduct, quantity |-> JAbsent, user |-> "",
     cart |-> EmptyCart, claimed |-> <<>>, out |-> NoOut]

\* send_json(data, status): the response leaves with self.response_time
send_json(h, status, err, out) ==
    [h EXCEPT !.pc = "done", !.status = status, !.err = err, !.out = out]

\* the handler as it would be without its except branch: the exception ends
\* it before anything is sent
FailUnanswered(h, msg) == [h EXCEPT !.pc = "raised", !.err = msg]

\* the except branch: response_time = time.time() - start_time, then a 500
\* carrying str(e)
Fail(h, msg) ==
    [h EXCEPT !.pc = "done", !.status = 500, !.err = msg,
              !.rt = "elapsed"]

CartOut(c) == [total |-> c.total, count |-> Len(c.items), items |-> c.items]

Replace(h, g) == (handlers \ {h}) \cup {g}

\* the server as it would be with a second thread handling connections
ServerThreaded == Cardinality(handlers) < 2

\* HTTPServer is a plain TCPServer: serve_forever accepts the next connection
\* only after the handler of the previous one has returned
ServerFree == handlers = {}

\* the size of the cart an addItem request would grow
ItemsOf(req) ==
    IF Summary(req).kind = "add" /\ Summary(req).user \in DOMAIN ledger
    THEN Len(ledger[Summary(req).user]) ELSE 0

-----------------------------------------------------------------------------
(* The server. *)

Init ==
    /\ cfg \in Configs
    /\ carts = << >>
    /\ backlog = << >>
    /\ handlers = {}
    /\ ledger = [u \in CartUsers |-> << >>]
    /\ acked = [u \in CartUsers |-> << >>]

\* a client connects; the kernel queues the connection until it is accepted
Connect ==
    /\ Len(backlog) < MaxBacklog
    /\ backlog' = Append(backlog, {Summary(h.req) : h \in handlers})
    /\ UNCHANGED <<cfg, carts, handlers, ledger, acked>>

\* serve_forever accepts the oldest connection and constructs a handler for
\* the request read from it
Accept ==
    /\ backlog # << >>
    /\ ServerFree
    /\ \E req \in Requests :
        /\ ItemsOf(req) < MaxItems
        /\ handlers' = handlers \cup {NewHandler(req, carts, Head(backlog))}
    /\ backlog' = Tail(backlog)
    /\ UNCHANGED <<cfg, carts, ledger, acked>>

\* the head of do_GET / do_POST up to the branch taken: a method without a
\* do_ method is answered 501 by BaseHTTPRequestHandler, do_POST parses the
\* body before it routes
Start(h) ==
    /\ h.pc = "start"
    /\ LET g ==
            IF h.req.method \notin {"GET", "POST"}
            THEN [h EXCEPT !.pc = "done", !.status = 501,
                           !.err = "Unsupported method"]
            ELSE IF h.req.method = "POST" /\ h.req.body.kind = "badlen"
            THEN Fail(h, "invalid literal for int()")
            ELSE IF h.req.method = "POST" /\ h.req.body.kind = "bad"
            THEN Fail(h, "Expecting value")
            ELSE [h EXCEPT !.pc = "sleep", !.route = Route(h.req),
                           !.tier = Tier(Route(h.req))]
       IN handlers' = Replace(h, g)
    /\ UNCHANGED <<cfg, carts, backlog, ledger, acked>>

\* simulate_latency returns after time.sleep(actual_latency), which raises
\* ValueError for a negative length
Sleep(h) ==
    /\ h.pc = "sleep"
    /\ \E j \in Jitters :
        handlers' = Replace(h,
            IF simulate_latency(cfg, BaseOf(cfg, h.tier), j) < 0
            THEN Fail([h EXCEPT !.ev = Append(h.ev, "latency")],
                      "sleep length must be non-negative")
            ELSE [h EXCEPT !.pc = IF Gated(h.route) THEN "db" ELSE "op",
                           !.rt = "sim",
                           !.ev = Append(h.ev, "latency")])
    /\ UNCHANGED <<cfg, carts, backlog, ledger, acked>>

\* the checkout branch as it would be without its simulate_payment() call
AfterDbSkipsPayment(route) == "op"

\* what follows a data-layer gate that passed: checkout goes on to
\* simulate_payment(), every other branch to its operation
AfterDb(route) == IF route = "checkout" THEN "pay" ELSE "op"

\* simulate_db_call() as it would be if the failure were logged and not raised
simulate_db_call_logs_only(h) ==
    /\ h.pc = "db"
    /\ \E d \in Draws :
        handlers' = Replace(h,
            [h EXCEPT !.pc = AfterDb(h.route),
                      !.ev = Append(h.ev, IF DbFails(cfg, d) THEN "db_fire"
                                          ELSE "db_pass")])
    /\ UNCHANGED <<cfg, carts, backlog, ledger, acked>>

\* simulate_db_call()
simulate_db_call(h) ==
    /\ h.pc = "db"
    /\ \E d \in Draws :
        handlers' = Replace(h,
            IF DbFails(cfg, d)
            THEN Fail([h EXCEPT !.ev = Append(h.ev, "db_fire")],
                      "Database connection failed")
            ELSE [h EXCEPT !.pc = AfterDb(h.route),
                           !.ev = Append(h.ev, "db_pass")])
    /\ UNCHANGED <<cfg, carts, backlog, ledger, acked>>

\* simulate_payment()
simulate_payment(h) ==
    /\ h.pc = "pay"
    /\ \E d \in Draws :
        handlers' = Replace(h,
            IF PaymentFails(cfg, d)
            THEN Fail([h EXCEPT !.ev = Append(h.ev, "pay_fire")],
                      "Payment processing failed")
            ELSE [h EXCEPT !.pc = "op", !.ev = Append(h.ev, "pay_pass")])
    /\ UNCHANGED <<cfg, carts, backlog, ledger, acked>>

-----------------------------------------------------------------------------
(* The branches of do_GET after the latency and the gate. *)

\* the user id as do_POST takes it, parts[3] of the split path
LastIsFourth(parts) == parts[4]

\* path.split('/')[-1]
Last(parts) == parts[Len(parts)]

GetOp(h) ==
    /\ h.pc = "op"
    /\ h.req.method = "GET"
    /\ LET g ==
            CASE h.route = "health" -> send_json(h, 200, "", NoOut)
              [] h.route = "products" ->
                    send_json(h, 200, "",
                         [NoOut EXCEPT !.count = Len(ListProducts(h.req.category))])
              [] h.route = "product" ->
                    IF IntOf(Last(h.req.parts)) < 0
                    THEN Fail(h, "invalid literal for int()")
                    ELSE LET product == FindProduct(JInt(IntOf(Last(h.req.parts))))
                         IN IF product # NoProduct
                            THEN send_json([h EXCEPT !.product = product], 200, "",
                                      [NoOut EXCEPT !.total = product.price])
                            ELSE send_json(h, 404, "Product not found", NoOut)
              [] h.route = "cart" ->
                    send_json([h EXCEPT !.user = Last(h.req.parts),
                                   !.ev = Append(h.ev, "read")],
                         200, "", CartOut(CartRead(carts, Last(h.req.parts))))
              [] h.route = "categories" -> send_json(h, 200, "", NoOut)
              [] OTHER -> send_json(h, 404, "Not found", NoOut)
       IN handlers' = Replace(h, g)
    /\ UNCHANGED <<cfg, carts, backlog, ledger, acked>>

-----------------------------------------------------------------------------
(* The cart branch of do_POST, app.py lines 153-173. *)

\* body.get exists on the dict json.loads returns for an object, and on the
\* {} taken for an empty body
HasGet(body) == body.kind \in {"obj", "none"}

\* lines 153-162 up to the test `user_id not in carts`
CartOp(h) ==
    /\ h.pc = "op"
    /\ h.req.method = "POST"
    /\ h.route = "cartop"
    /\ LET user == h.req.parts[4]
           product == FindProduct(BodyGet(h.req.body, "product_id", JNull))
           g == IF ~IsAddPath(h.req.parts)
                THEN send_json([h EXCEPT !.user = user], 400, "Invalid cart operation",
                          NoOut)
                ELSE IF ~HasGet(h.req.body)
                THEN Fail([h EXCEPT !.user = user],
                          "'list' object has no attribute 'get'")
                ELSE IF product = NoProduct
                THEN send_json([h EXCEPT !.user = user], 404, "Product not found", NoOut)
                ELSE [h EXCEPT !.user = user, !.product = product,
                               !.quantity = BodyGet(h.req.body, "quantity", JInt(1)),
                               !.pc = IF user \notin DOMAIN carts
                                      THEN "add_create" ELSE "add_append"]
       IN handlers' = Replace(h, g)
    /\ UNCHANGED <<cfg, carts, backlog, ledger, acked>>

\* the assignment as it would be if it rebound the store: carts = {user: value}
PutAlone(store, user, value) == [u \in {user} |-> value]

\* store[user] = value
Put(store, user, value) ==
    [u \in DOMAIN store \cup {user} |-> IF u = user THEN value ELSE store[u]]

\* carts[user_id] = {"items": [], "total": 0}
AddCreate(h) ==
    /\ h.pc = "add_create"
    /\ carts' = Put(carts, h.user, EmptyCart)
    /\ handlers' = Replace(h, [h EXCEPT !.pc = "add_append",
                                        !.ev = Append(h.ev, "create")])
    /\ UNCHANGED <<cfg, backlog, ledger, acked>>

\* carts[user_id]["items"].append({"product": product, "quantity": quantity})
AddAppend(h) ==
    /\ h.pc = "add_append"
    /\ LET item == [product |-> h.product, quantity |-> h.quantity]
       IN /\ carts' = [carts EXCEPT ![h.user].items = Append(@, item)]
          /\ ledger' = [ledger EXCEPT ![h.user] = Append(@, item)]
    /\ handlers' = Replace(h, [h EXCEPT !.pc = "add_total",
                                        !.ev = Append(h.ev, "append")])
    /\ UNCHANGED <<cfg, backlog, acked>>

\* the cart after carts[user_id]["total"] += product["price"] * quantity
AddToTotal(cart, product, quantity) ==
    [cart EXCEPT !.total = @ + product.price * quantity.n]

\* line 167, where the product raises TypeError for a quantity that is no
\* number, and the send_json of line 169
AddTotal(h) ==
    /\ h.pc = "add_total"
    /\ IF CanMultiply(h.quantity)
       THEN /\ carts' = [carts EXCEPT
                            ![h.user] = AddToTotal(@, h.product, h.quantity)]
            /\ handlers' = Replace(h,
                   send_json([h EXCEPT !.ev = Append(h.ev, "total")], 200, "",
                        CartOut(carts'[h.user])))
            /\ acked' = [u \in DOMAIN acked |->
                            IF u = h.user
                            THEN Append(acked[u], [product |-> h.product,
                                                   quantity |-> h.quantity])
                            ELSE acked[u]]
       ELSE /\ carts' = carts
            /\ acked' = acked
            /\ handlers' = Replace(h,
                   Fail(h, "can't multiply sequence by non-int of type 'float'"))
    /\ UNCHANGED <<cfg, backlog, ledger>>

-----------------------------------------------------------------------------
(* The checkout branch of do_POST, app.py lines 179-193. *)

\* the test as it would be on the cart dict, which is never empty
HasItemsOfDict(cart) == TRUE

\* if cart["items"]: a list is true when it is not empty
HasItems(cart) == cart.items # << >>

\* lines 179-181: the read of the cart and the test of its items
CheckoutOp(h) ==
    /\ h.pc = "op"
    /\ h.req.method = "POST"
    /\ h.route = "checkout"
    /\ LET uid == BodyGet(h.req.body, "user_id", JNull)
           cart == IF uid.t = "str" THEN CartRead(carts, uid.s) ELSE EmptyCart
           g == IF ~HasGet(h.req.body)
                THEN Fail(h, "'list' object has no attribute 'get'")
                ELSE IF uid.t = "list"
                THEN Fail(h, "unhashable type: 'list'")
                ELSE IF HasItems(cart)
                THEN [h EXCEPT !.user = uid.s, !.cart = cart, !.pc = "co_reset",
                               !.ev = Append(h.ev, "read")]
                ELSE send_json([h EXCEPT !.ev = Append(h.ev, "read")],
                          400, "Cart is empty", NoOut)
       IN handlers' = Replace(h, g)
    /\ UNCHANGED <<cfg, carts, backlog, ledger, acked>>

\* the order as it would be if it were built from the cart after the reset
OrderOutAfterReset(cart) == [total |-> 0, count |-> 0, items |-> << >>]

\* the order sent by lines 185-190
OrderOut(cart) == [total |-> cart.total, count |-> Len(cart.items), items |-> << >>]

\* line 184, carts[user_id] = {"items": [], "total": 0}, and the response
CoReset(h) ==
    /\ h.pc = "co_reset"
    /\ carts' = Put(carts, h.user, EmptyCart)
    /\ ledger' = [u \in DOMAIN ledger |-> IF u = h.user THEN << >> ELSE ledger[u]]
    /\ acked' = [u \in DOMAIN acked |-> IF u = h.user THEN << >> ELSE acked[u]]
    /\ handlers' = Replace(h,
           send_json([h EXCEPT !.claimed = IF h.user \in DOMAIN ledger
                                      THEN ledger[h.user] ELSE << >>,
                          !.ev = Append(h.ev, "reset")],
                200, "", OrderOut(h.cart)))
    /\ UNCHANGED <<cfg, backlog>>

\* the else branch of do_POST, lines 195-197
PostOther(h) ==
    /\ h.pc = "op"
    /\ h.req.method = "POST"
    /\ h.route = "notfound"
    /\ handlers' = Replace(h, send_json(h, 404, "Not found", NoOut))
    /\ UNCHANGED <<cfg, carts, backlog, ledger, acked>>

\* the handler returns and the server closes the connection
Close(h) ==
    /\ h.pc = "done"
    /\ handlers' = handlers \ {h}
    /\ UNCHANGED <<cfg, carts, backlog, ledger, acked>>

Next ==
    \/ Connect
    \/ Accept
    \/ \E h \in handlers : Start(h)
    \/ \E h \in handlers : Sleep(h)
    \/ \E h \in handlers : simulate_db_call(h)
    \/ \E h \in handlers : simulate_payment(h)
    \/ \E h \in handlers : GetOp(h)
    \/ \E h \in handlers : CartOp(h)
    \/ \E h \in handlers : AddCreate(h)
    \/ \E h \in handlers : AddAppend(h)
    \/ \E h \in handlers : AddTotal(h)
    \/ \E h \in handlers : CheckoutOp(h)
    \/ \E h \in handlers : CoReset(h)
    \/ \E h \in handlers : PostOther(h)
    \/ \E h \in handlers : Close(h)

Spec == Init /\ [][Next]_vars

-----------------------------------------------------------------------------
(* Vocabulary of the properties. *)

Done(h) == h.pc = "done"

Occurs(ev, e) == \E i \in 1..Len(ev) : ev[i] = e

Count(ev, es) == Cardinality({i \in 1..Len(ev) : ev[i] \in es})

\* the first position of e in ev, or 0
Position(ev, e) ==
    IF Occurs(ev, e) THEN CHOOSE i \in 1..Len(ev) :
                               ev[i] = e /\ \A k \in 1..(i - 1) : ev[k] # e
    ELSE 0

GateFired(h) == Occurs(h.ev, "db_fire") \/ Occurs(h.ev, "pay_fire")

IsCheckout(h) == h.req.method = "POST" /\ PostRoute(h.req.parts) = "checkout"

IsAdd(h) ==
    h.req.method = "POST" /\ PostRoute(h.req.parts) = "cartop"
    /\ IsAddPath(h.req.parts)

Numeric(items) == \A i \in 1..Len(items) : items[i].quantity.t = "int"

\* the sum of quantity * price over the items that have a numeric quantity
RECURSIVE ItemsSum(_)
ItemsSum(items) ==
    IF items = << >> THEN 0
    ELSE (IF Head(items).quantity.t = "int"
          THEN Head(items).quantity.n * Head(items).product.price ELSE 0)
         + ItemsSum(Tail(items))

\* no handler is between the append and the total += of an addItem
NoAddUnderWay == \A h \in handlers : h.pc # "add_total"

-----------------------------------------------------------------------------
(* C1 *)

\* C1: whenever no addItem is between its append and its total +=, every cart
\* of the store has a total equal to the sum of quantity * price over its
\* items, for every caller-supplied product_id and quantity.
C1_TotalIsSumOfItems ==
    NoAddUnderWay =>
        \A u \in DOMAIN carts :
            Numeric(carts[u].items) /\ carts[u].total = ItemsSum(carts[u].items)

-----------------------------------------------------------------------------
(* C2 *)

\* the user a checkout names, when its body names one by a string
CheckoutUser(h) == h.req.body.user_id.s

ChecksOutItems(h) ==
    /\ Done(h) /\ IsCheckout(h) /\ HasGet(h.req.body)
    /\ h.req.body.user_id.t = "str"
    /\ CartRead(h.before, CheckoutUser(h)).items # << >>
    /\ ~GateFired(h)

\* C2: a checkout of a cart with at least one item that no gate stops is
\* answered 200 with the total and the item count the cart had before it, and
\* leaves that cart {items: [], total: 0}, which is what a cart read then
\* returns.
C2_CheckoutReturnsCartAndResets ==
    \A h \in handlers :
        ChecksOutItems(h) =>
            /\ h.status = 200
            /\ h.out.total = h.before[CheckoutUser(h)].total
            /\ h.out.count = Len(h.before[CheckoutUser(h)].items)
            /\ CheckoutUser(h) \in DOMAIN carts
            /\ carts[CheckoutUser(h)] = EmptyCart
            /\ CartOut(CartRead(carts, CheckoutUser(h))) = NoOut

\* the scenario of one item priced 1299.99 with quantity 1
C2_Witness ==
    \E h \in handlers :
        /\ ChecksOutItems(h)
        /\ h.out.total = 129999 /\ h.out.count = 1
        /\ carts[CheckoutUser(h)] = EmptyCart

-----------------------------------------------------------------------------
(* C3 *)

\* C3: a handler whose data-layer or payment gate fired has stopped there with
\* a 500 that names the gate, and the cart store is what it was when the
\* request was accepted: nothing was created, appended or reset.
C3_GateFailureLeavesStore ==
    \A h \in handlers :
        GateFired(h) =>
            /\ Done(h) /\ h.status = 500
            /\ h.ev[Len(h.ev)] \in {"db_fire", "pay_fire"}
            /\ Occurs(h.ev, "db_fire") => h.err = "Database connection failed"
            /\ Occurs(h.ev, "pay_fire") => h.err = "Payment processing failed"
            /\ ~Occurs(h.ev, "db_fire") \/ ~Occurs(h.ev, "pay_fire")
            /\ Count(h.ev, {"create", "append", "total", "reset"}) = 0
            /\ carts = h.before

\* the payment gate fires on the checkout of a cart that holds items
C3_Witness ==
    \E h \in handlers :
        /\ Occurs(h.ev, "pay_fire") /\ h.req.body.user_id.t = "str"
        /\ CartRead(carts, CheckoutUser(h)).items # << >>

-----------------------------------------------------------------------------
(* C4 *)

\* C4: in a checkout each gate is rolled at most once, the payment gate only
\* after the data-layer gate has passed, and the cart is read and reset only
\* after both gates have passed.
C4_CheckoutGateOrder ==
    \A h \in handlers :
        IsCheckout(h) =>
            /\ Count(h.ev, {"db_pass", "db_fire"}) <= 1
            /\ Count(h.ev, {"pay_pass", "pay_fire"}) <= 1
            /\ Count(h.ev, {"pay_pass", "pay_fire"}) = 1 =>
                  /\ Occurs(h.ev, "db_pass")
                  /\ Position(h.ev, "db_pass") < Position(h.ev, "pay_pass")
                                                 + Position(h.ev, "pay_fire")
            /\ Occurs(h.ev, "db_fire") =>
                  Count(h.ev, {"pay_pass", "pay_fire"}) = 0
            /\ Count(h.ev, {"read", "reset"}) > 0 =>
                  /\ Occurs(h.ev, "db_pass") /\ Occurs(h.ev, "pay_pass")
                  /\ \A i \in 1..Len(h.ev) :
                        h.ev[i] \in {"read", "reset"} =>
                            /\ Position(h.ev, "db_pass") < i
                            /\ Position(h.ev, "pay_pass") < i
            /\ h.pc = "co_reset" \/ (Done(h) /\ h.status \in {200, 400}) =>
                  Occurs(h.ev, "pay_pass")

\* a checkout that passed both gates, read the cart and reset it
C4_Witness ==
    \E h \in handlers :
        IsCheckout(h) /\ h.ev = <<"latency", "db_pass", "pay_pass", "read", "reset">>

-----------------------------------------------------------------------------
(* C5 *)

\* every item appended for u since its last reset is the same product with
\* quantity 1
SameUnitAdds(u) ==
    /\ ledger[u] # << >>
    /\ \A i \in 1..Len(ledger[u]) :
          /\ ledger[u][i].quantity = JInt(1)
          /\ ledger[u][i].product = ledger[u][1].product

NoAddInFlight(u) ==
    \A h \in handlers :
        h.pc \in {"add_create", "add_append", "add_total"} => h.user # u

\* C5: once the N addItem requests made for a user since the last reset, each
\* for the same product of price P with quantity 1, have run, the user's cart
\* holds N items and its total is N * P, however the requests arrived; and
\* an addItem that found no cart for its user still finds none when it
\* creates one, so that the creation never replaces a cart with items.
C5_ConcurrentAddsAllCounted ==
    /\ \A u \in CartUsers :
          NoAddInFlight(u) /\ SameUnitAdds(u) =>
              /\ u \in DOMAIN carts
              /\ Len(carts[u].items) = Len(ledger[u])
              /\ carts[u].total = Len(ledger[u]) * ledger[u][1].product.price
    /\ \A h \in handlers :
          /\ h.pc = "add_create" => h.user \notin DOMAIN carts
          /\ h.pc \in {"add_append", "add_total"} => h.user \in DOMAIN carts

\* an addItem whose connection arrived while another addItem for the same user
\* was being handled has been answered, and both items are in the cart
C5_Witness ==
    \E h \in handlers :
        /\ Done(h) /\ IsAdd(h) /\ h.status = 200
        /\ [kind |-> "add", user |-> h.user] \in h.with
        /\ SameUnitAdds(h.user)
        /\ Len(carts[h.user].items) = 2
        /\ carts[h.user].total = 2 * h.product.price

-----------------------------------------------------------------------------
(* C6 *)

\* C6: while a handler is blocked in the delay of simulate_latency, a
\* connection that is waiting can be accepted and handled.
C6_SleepDoesNotBlockOthers ==
    (backlog # << >> /\ \E h \in handlers : h.pc = "sleep") => ENABLED Accept

-----------------------------------------------------------------------------
(* C7 *)

-----------------------------------------------------------------------------
(* C8 *)

\* C8: a request answered 4xx or 5xx and every GET leave the cart store as it
\* was, and a request that did change it is an addItem answered 200 that
\* appended one item to its user's cart or a checkout answered 200 that
\* emptied its user's cart.
C8_OnlyTransitionsChangeCarts ==
    \A h \in handlers :
        Done(h) =>
            /\ (h.status >= 400 \/ h.req.method = "GET") => carts = h.before
            /\ carts # h.before =>
                  \/ /\ IsAdd(h) /\ h.status = 200
                     /\ Len(carts[h.user].items)
                            = Len(CartRead(h.before, h.user).items) + 1
                  \/ /\ IsCheckout(h) /\ h.status = 200
                     /\ carts[h.user] = EmptyCart

-----------------------------------------------------------------------------
(* C9 *)

ChecksOutNothing(h) ==
    /\ Done(h) /\ IsCheckout(h) /\ HasGet(h.req.body)
    /\ h.req.body.user_id.t # "list"
    /\ \/ h.req.body.user_id.t # "str"
       \/ CartRead(h.before, CheckoutUser(h)).items = << >>
    /\ ~GateFired(h)

\* C9: a checkout that no gate stops, for a user whose cart is empty or
\* missing or with a body that has no user_id, is answered 400 "Cart is
\* empty" and leaves the cart store as it was.
C9_EmptyCheckoutRejected ==
    \A h \in handlers :
        ChecksOutNothing(h) =>
            /\ h.status = 400 /\ h.err = "Cart is empty"
            /\ carts = h.before
            /\ h.req.body.user_id.t = "str" =>
                  CartRead(carts, CheckoutUser(h)) = EmptyCart

\* the checkout of a cart that an earlier checkout had emptied
C9_Witness ==
    \E h \in handlers :
        /\ ChecksOutNothing(h) /\ h.status = 400
        /\ h.req.body.user_id.t = "str"
        /\ CheckoutUser(h) \in DOMAIN carts

-----------------------------------------------------------------------------
(* C10 *)

\* no product of the catalog has the id the body gives
UnknownProduct(j) ==
    ~(j.t = "int" /\ \E i \in 1..Len(PRODUCTS) : PRODUCTS[i].id = j.n)

AddsUnknown(h) ==
    /\ Done(h) /\ IsAdd(h) /\ HasGet(h.req.body)
    /\ UnknownProduct(BodyGet(h.req.body, "product_id", JNull))

\* C10 as stated: an addItem whose product_id matches no product is answered
\* 404 "Product not found" and leaves the cart store as it was.
C10_UnknownProductIs404 ==
    \A h \in handlers :
        AddsUnknown(h) =>
            /\ h.status = 404 /\ h.err = "Product not found"
            /\ carts = h.before

\* C10: an addItem with a JSON object body whose product_id matches no
\* product leaves the cart store as it was, creating no cart, and is answered
\* 404 "Product not found" unless the data-layer gate fired, which answers 500.
C10_UnknownProductIs404PastGate ==
    \A h \in handlers :
        AddsUnknown(h) =>
            /\ carts = h.before
            /\ Count(h.ev, {"create", "append", "total"}) = 0
            /\ IF Occurs(h.ev, "db_fire")
               THEN h.status = 500 /\ h.err = "Database connection failed"
               ELSE h.status = 404 /\ h.err = "Product not found"

\* an unknown product is refused for a user without a cart
C10_Witness ==
    \E h \in handlers :
        /\ AddsUnknown(h) /\ h.status = 404
        /\ h.req.parts[4] \notin DOMAIN carts

-----------------------------------------------------------------------------
(* C11 *)

\* C11: between two resets the cart of a user holds exactly the items of the
\* addItem requests answered 200 for that user, in the order they were
\* answered, each with the product the body's product_id names and the
\* quantity the body gives (1 when it gives none), and its total is the sum of
\* price * quantity over them; the cart an addItem returns is the cart after
\* its addition.
C11_CartIsTheAnsweredAdds ==
    /\ \A u \in CartUsers :
          NoAddInFlight(u) =>
              /\ CartRead(carts, u).items = acked[u]
              /\ CartRead(carts, u).total = ItemsSum(acked[u])
    /\ \A h \in handlers :
          Done(h) /\ IsAdd(h) /\ h.status = 200 =>
              /\ h.out = CartOut(carts[h.user])
              /\ h.out.items[h.out.count].product.id = h.req.body.product_id.n
              /\ h.out.items[h.out.count].quantity
                    = BodyGet(h.req.body, "quantity", JInt(1))

-----------------------------------------------------------------------------
(* C12 *)

\* C12: simulate_latency is the first call of every handler, is made at most
\* once, and has been made exactly once, with the base of the tier of the
\* request's route, by the time the response is sent.
C12_LatencyOnceBeforeAll ==
    \A h \in handlers :
        /\ Count(h.ev, {"latency"}) <= 1
        /\ h.ev # << >> => h.ev[1] = "latency"
        /\ Done(h) =>
              /\ Count(h.ev, {"latency"}) = 1
              /\ h.tier = Tier(Route(h.req))

-----------------------------------------------------------------------------
(* C13 *)

\* DB_FAILURE_RATE=1.0 and DB_FAILURE_RATE=0 in the environment
DbAlwaysFails == [DefaultConfig EXCEPT !.db_rate = 1000]
DbNeverFails == [DefaultConfig EXCEPT !.db_rate = 0]

RateConfigs == {DbAlwaysFails, DbNeverFails}

\* the server started with either of the two rates
InitRates ==
    /\ cfg \in RateConfigs
    /\ carts = << >>
    /\ backlog = << >>
    /\ handlers = {}
    /\ ledger = [u \in CartUsers |-> << >>]
    /\ acked = [u \in CartUsers |-> << >>]

SpecRates == InitRates /\ [][Next]_vars

\* the requests the routing table sends through the data-layer gate
AsksGated(req) ==
    \/ /\ req.method = "GET"
       /\ \/ req.parts = <<"", "api", "products">>
          \/ Len(req.parts) = 4 /\ SubSeq(req.parts, 1, 3) = <<"", "api", "products">>
          \/ Len(req.parts) = 4 /\ SubSeq(req.parts, 1, 3) = <<"", "api", "cart">>
    \/ /\ req.method = "POST"
       /\ \/ Len(req.parts) = 5 /\ SubSeq(req.parts, 1, 3) = <<"", "api", "cart">>
             /\ req.parts[5] = "add"
          \/ req.parts = <<"", "api", "checkout">>

\* /, /health and /api/categories
AsksUngated(req) ==
    /\ req.method = "GET"
    /\ req.parts \in {<<"", "">>, <<"", "health">>, <<"", "api", "categories">>}

\* C13: with the data-layer rate at 1.0 every answered request for the product
\* list, a product, a cart, an addItem or a checkout is a 500 (the gate's
\* "Database connection failed" whenever the body parsed) and the cart store
\* stays empty; with the rate at 0 the gate never fires; at either rate /,
\* /health and /api/categories are answered 200.
C13_RateOneFailsAllGated ==
    /\ cfg.db_rate = 1000 =>
          /\ carts = << >>
          /\ \A h \in handlers :
                Done(h) /\ AsksGated(h.req) =>
                    /\ h.status = 500
                    /\ h.req.body.kind \notin {"bad", "badlen"} =>
                          h.err = "Database connection failed"
    /\ cfg.db_rate = 0 =>
          \A h \in handlers : ~Occurs(h.ev, "db_fire")
    /\ \A h \in handlers :
          Done(h) /\ AsksUngated(h.req) => h.status = 200

\* at rate 1.0 an addItem was stopped by the gate
C13_Witness ==
    \E h \in handlers :
        /\ Done(h) /\ IsAdd(h) /\ cfg.db_rate = 1000
        /\ h.err = "Database connection failed"
        /\ h.ev = <<"latency", "db_fire">>

-----------------------------------------------------------------------------
(* C14 *)

\* the path begins with /api/<b>/
Under(parts, b) == Len(parts) >= 4 /\ SubSeq(parts, 1, 3) = <<"", "api", b>>

\* the seven rows of the routing table, by method and path pattern
Listed(req) ==
    \/ /\ req.method = "GET"
       /\ \/ req.parts \in {<<"", "">>, <<"", "health">>, <<"", "api", "products">>,
                            <<"", "api", "categories">>}
          \/ Len(req.parts) = 4 /\ Under(req.parts, "products")
          \/ Len(req.parts) = 4 /\ Under(req.parts, "cart")
    \/ /\ req.method = "POST"
       /\ \/ Len(req.parts) = 5 /\ Under(req.parts, "cart") /\ req.parts[5] = "add"
          \/ req.parts = <<"", "api", "checkout">>

Parses(req) == req.body.kind \notin {"bad", "badlen"}

\* a GET or POST whose path no branch of the dispatcher takes
NoBranch(req) ==
    \/ /\ req.method = "GET"
       /\ req.parts \notin {<<"", "">>, <<"", "health">>, <<"", "api", "products">>,
                            <<"", "api", "categories">>}
       /\ ~Under(req.parts, "products") /\ ~Under(req.parts, "cart")
    \/ /\ req.method = "POST" /\ Parses(req)
       /\ ~Under(req.parts, "cart") /\ req.parts # <<"", "api", "checkout">>

\* a POST under /api/cart/ that is not .../add
OtherCartPost(req) ==
    /\ req.method = "POST" /\ Parses(req) /\ Under(req.parts, "cart")
    /\ ~(Len(req.parts) > 4 /\ req.parts[5] = "add")

-----------------------------------------------------------------------------
(* C15 *)

\* input the caller got wrong: a body or Content-Length that does not parse,
\* a body that is no JSON object, a product id in the path that is no integer
Malformed(req) ==
    \/ req.method = "POST" /\ req.body.kind \in {"bad", "badlen", "list"}
    \/ /\ req.method = "GET" /\ Len(req.parts) = 4 /\ Under(req.parts, "products")
       /\ IntOf(req.parts[4]) < 0

\* C15: a request with malformed input that no gate stopped is answered 4xx,
\* so that a 5xx answer is never the answer to malformed input.
C15_MalformedIs4xx ==
    \A h \in handlers :
        (Done(h) /\ Malformed(h.req) /\ ~GateFired(h)) =>
            h.status >= 400 /\ h.status < 500

-----------------------------------------------------------------------------
(* C16 *)

\* C16: every response that has been sent carries a response time set by its
\* own handler: the simulator's value when the handler ran to its send_json,
\* the elapsed time when an exception ended it.
C16_EveryResponseCarriesTime ==
    \A h \in handlers :
        Done(h) =>
            /\ h.rt # Unset
            /\ h.rt = "elapsed" <=> h.status = 500
            /\ h.rt = "sim" => Occurs(h.ev, "latency")

-----------------------------------------------------------------------------
(* C17 *)

\* values of BASE_LATENCY_MS, in milliseconds, and of CHAOS_MULTIPLIER that
\* the environment may set
LatencyBases == {0 - 50, 0, 1, BASE_LATENCY, 999}
Multipliers == {1, 3, CHAOS_MULTIPLIER}

LatencyConfigs ==
    {[DefaultConfig EXCEPT !.base = b, !.chaos = ch, !.multiplier = m] :
        b \in LatencyBases, ch \in BOOLEAN, m \in Multipliers}

Tiers == {"base", "product", "cart", "checkout"}

\* random.uniform(-0.2, 0.2) in per-mille, in steps of 50
JitterRange == {j \in (0 - 200)..200 : j % 50 = 0}

\* the module imported under one of the configurations, nothing served yet
InitLatency ==
    /\ cfg \in LatencyConfigs
    /\ carts = << >>
    /\ backlog = << >>
    /\ handlers = {}
    /\ ledger = [u \in CartUsers |-> << >>]
    /\ acked = [u \in CartUsers |-> << >>]

\* one call simulate_latency(base) with the base of a tier; handlers holds
\* the frame of the call: its argument, the jitter drawn and the value returned
CallSimulateLatency ==
    /\ \E tier \in Tiers, j \in JitterRange :
          handlers' = {[base |-> BaseOf(cfg, tier), jitter |-> j,
                        actual |-> simulate_latency(cfg, BaseOf(cfg, tier), j)]}
    /\ UNCHANGED <<cfg, carts, backlog, ledger, acked>>

SpecLatency == InitLatency /\ [][CallSimulateLatency]_vars

\* C17: for a base of L >= 0 milliseconds the value returned, in microseconds,
\* lies between 800 * L and 1200 * L when chaos mode is off, whatever the
\* multiplier is, and between 800 * L * M and 1200 * L * M when it is on with
\* multiplier M; it is the jitter's share of the latency after the
\* multiplication that is added.
C17_LatencyWithinJitterBand ==
    \A call \in handlers :
        call.base >= 0 =>
            /\ ~cfg.chaos =>
                  /\ 800 * call.base <= call.actual
                  /\ call.actual <= 1200 * call.base
            /\ cfg.chaos =>
                  /\ 800 * call.base * cfg.multiplier <= call.actual
                  /\ call.actual <= 1200 * call.base * cfg.multiplier
                  /\ call.jitter = 200 =>
                        call.actual = 1200 * call.base * cfg.multiplier
                  /\ call.jitter = 0 - 200 =>
                        call.actual = 800 * call.base * cfg.multiplier

\* the checkout tier under chaos with multiplier 10 and the largest jitter:
\* 800 ms * 10 * 1.2 = 9.6 s
C17_Witness ==
    \E call \in handlers :
        /\ cfg.chaos /\ cfg.multiplier = 10
        /\ call.base = 800 /\ call.jitter = 200 /\ call.actual = 9600000

-----------------------------------------------------------------------------
(* C18 *)

\* what the server thread does by itself: accept the next connection, run the
\* handler it constructed to its end, close the connection
Serve ==
    \/ Accept
    \/ \E h \in handlers :
          \/ Start(h) \/ Sleep(h) \/ simulate_db_call(h) \/ simulate_payment(h)
          \/ GetOp(h) \/ CartOp(h) \/ AddCreate(h) \/ AddAppend(h) \/ AddTotal(h)
          \/ CheckoutOp(h) \/ CoReset(h) \/ PostOther(h) \/ Close(h)

\* serve_forever keeps running its thread, and time.sleep returns: the server
\* takes a step whenever it has one; clients connect or not as they please
SpecFair == Spec /\ WF_vars(Serve)

\* C18: a handler that has begun a request gets to the sending of its
\* response, whatever the request and whatever failed in it; a response, once
\* sent, is final, the handler doing nothing more than return; and a
\* connection that waits is accepted, whatever the requests before it ended
\* in.
C18_EveryRequestAnswered ==
    /\ [](\A h \in handlers : Done(h) <=> h.status # 0)
    /\ [][\A h \in handlers :
             Done(h) => handlers' = handlers \/ handlers' = handlers \ {h}]_vars
    /\ (\E h \in handlers : ~Done(h)) ~> (\E h \in handlers : Done(h))
    /\ (backlog # << >>) ~> (\E h \in handlers : h.pc = "start")

\* a request is answered 200 after an addItem for u1 ended in an exception
C18_Witness ==
    \E h \in handlers :
        /\ Done(h) /\ h.status = 200
        /\ ledger["u1"] # << >> /\ acked["u1"] = << >>
        /\ h.before = carts

-----------------------------------------------------------------------------
(* C19 *)

\* the user id a GET under /api/cart/ names
ReadUser(h) == h.req.parts[Len(h.req.parts)]

\* a cart read, not stopped by the gate, for a user who had no cart
ReadsMissingCart(h) ==
    /\ Done(h) /\ h.req.method = "GET" /\ Under(h.req.parts, "cart")
    /\ ~Occurs(h.ev, "db_fire")
    /\ ReadUser(h) \notin DOMAIN h.before

\* C19 as stated: a cart read for a user without a cart returns the empty cart
\* and leaves an empty cart for that user in the store.
C19_ReadCreatesCart ==
    \A h \in handlers :
        ReadsMissingCart(h) =>
            /\ h.status = 200 /\ h.out = NoOut
            /\ ReadUser(h) \in DOMAIN carts
            /\ carts[ReadUser(h)] = EmptyCart

\* C19: a cart read for a user without a cart returns a cart of zero items
\* and zero total and leaves the store as it was, without an entry for that
\* user; an addItem answered 200 leaves an entry for its user; and an entry,
\* once in the store, stays in it.
C19_ReadLeavesStoreAddCreates ==
    /\ [](\A h \in handlers :
             /\ ReadsMissingCart(h) =>
                   /\ h.status = 200 /\ h.out = NoOut
                   /\ carts = h.before
                   /\ ReadUser(h) \notin DOMAIN carts
             /\ Done(h) /\ IsAdd(h) /\ h.status = 200 =>
                   h.req.parts[4] \in DOMAIN carts)
    /\ [][DOMAIN carts \subseteq DOMAIN carts']_vars

\* u2 has read its cart while u1 has one with an item in it: the store still
\* has no entry for u2
C19_Witness ==
    \E h \in handlers :
        /\ ReadsMissingCart(h) /\ ReadUser(h) = "u2" /\ h.status = 200
        /\ DOMAIN carts = {"u1"} /\ carts["u1"].items # << >>

-----------------------------------------------------------------------------
(* C20 *)

\* the user id a request is addressed to: the one in the path of a cart read
\* or a cart operation, the one in the body of a checkout; "" when it names
\* none
Addressee(req) ==
    IF req.method = "GET" /\ Under(req.parts, "cart") THEN req.parts[Len(req.parts)]
    ELSE IF req.method = "POST" /\ Under(req.parts, "cart") THEN req.parts[4]
    ELSE IF req.method = "POST" /\ req.parts = <<"", "api", "checkout">>
              /\ req.body.user_id.t = "str"
    THEN req.body.user_id.s
    ELSE ""

\* C20: while a request is handled and when it has been answered, whatever
\* its outcome, the cart of every user it is not addressed to is the cart
\* that user had when the request was accepted (no cart appears for such a
\* user and none disappears), and the items of each user's cart are those
\* appended by the requests addressed to that user since its last reset.
C20_OtherUsersCartsUntouched ==
    /\ \A h \in handlers :
          \A u \in (DOMAIN carts \cup DOMAIN h.before) \ {Addressee(h.req)} :
              /\ u \in DOMAIN carts /\ u \in DOMAIN h.before
              /\ carts[u] = h.before[u]
    /\ \A u \in CartUsers : CartRead(carts, u).items = ledger[u]

\* the first addItem of u2 has been answered 200 while the cart of u1 holds
\* an item
C20_Witness ==
    \E h \in handlers :
        /\ Done(h) /\ IsAdd(h) /\ h.status = 200 /\ Addressee(h.req) = "u2"
        /\ "u1" \in DOMAIN carts /\ carts["u1"].items # << >>
        /\ carts["u1"] = h.before["u1"]
        /\ "u2" \notin DOMAIN h.before

====
